---- MODULE Spec2Model ----
(***************************************************************************)
(* Event binding and filter lifecycle of the EVM chain reader              *)
(* (core/services/relay/evm/event_binding.go), its log source              *)
(* collaborator, and the remote codec used around it.                      *)
(*                                                                         *)
(* A binding's methods are modelled as steps of a calling thread: every    *)
(* step is one access to the binding's shared fields or one call of the    *)
(* log source, so that interleavings of callers on one binding are the     *)
(* interleavings the Go program has.  Spec runs one caller (sequential     *)
(* use); the other specifications are defined further down.                *)
(***************************************************************************)
EXTENDS Integers, Sequences, FiniteSets, TLC

\* ------------------------------------------------------------------ bounds

\* Upper bound on the number of logs the log source holds.
MaxLogs == 3

\* Codec: upper bound on the element-count bound n of the size functions.
MaxN == 10

\* Codec: test structs are generated from the seeds 0..MaxSeed.
MaxSeed == 2

\* Codec: upper bound on the length of an encoded slice of test structs.
MaxSlice == 2

\* ------------------------------------------------------- program constants

\* Max four topics on EVM, the first is the event signature.
maxTopicFields == 3

\* ----------------------------------------------------------- fixed domains

Bindings == {"b1", "b2"}
Threads == {"t1", "t2"}
None == "none"

\* Mutant: the filter name derived from the event alone, shared by b1 and b2.
idFromEvent(b) == "id-EventSig"

\* The unique subscription identifier of a binding.
id(b) == "id-" \o b

\* The event-signature hash of a binding: b1 and b2 are two bindings of the
\* same event.
hash(b) == "EventSig"

\* Addresses as the caller writes them, and the 20-byte value (as a number)
\* common.HexToAddress parses them to: hex digits are case-insensitive.
AddressStrings == {"0xA", "0xa", "0xB"}
ZeroAddress == 0
HexToAddress(s) == CASE s = "0xA" -> 10
                     [] s = "0xa" -> 10
                     [] s = "0xB" -> 11
                     [] OTHER -> ZeroAddress
Addresses == {ZeroAddress} \cup {HexToAddress(s) : s \in AddressStrings}

\* Topic hashes of indexed field values.
Hashes == {"h1", "h2"}

\* (block number, log index) of the logs the log source may hold.
Positions == {<<10, 2>>, <<10, 5>>, <<11, 0>>, <<12, 0>>}

\* Error kinds of commontypes, nil, and a Go runtime panic.
Nil == "nil"
ErrInternal == "Internal"
ErrInvalidType == "InvalidType"
ErrNotFound == "NotFound"
Panic == "panic"

\* logpoller.Confirmations
Finalized == "Finalized"
Unconfirmed == "Unconfirmed"

\* Messages of the errors a log-source call can fail with.
LogSourceErrors == {"sql: no rows in result set", "block not found", "connection refused"}

VARIABLES
    address,        \* eventBinding.address, per binding
    pending,        \* eventBinding.pending
    bound,          \* eventBinding.bound
    registerCalled, \* eventBinding.registerCalled
    lock,           \* eventBinding.lock: the thread holding it, or None
    inputInfo,      \* len(eventBinding.inputInfo.Args)
    topicInfo,      \* len(eventBinding.topicInfo.Args)
    filters,        \* log source: filter name -> the filters registered under it
    lpLogs,         \* log source: the logs it holds
    pc,             \* per thread: the next step of its call
    call,           \* per thread: the call it runs (method, binding, arguments)
    ret,            \* per thread: what the call returned
    entry,          \* per thread: the binding as it was when the call was made
    trace,          \* per thread: the log-source calls this call has made
    everRegister,   \* per binding: Register was called by a caller at some point
    failed,         \* per binding: a Bind, Register or Unregister call returned an error
    lastBind,       \* per binding: the arguments of the most recent Bind that returned
                    \* nil, and of the most recent Bind that replaced the address
    confs,          \* GetLatestValue local: confs
    hashes,         \* getLatestValueWithFilters local: filtersAndIndices
    logs,           \* getLatestValueWithFilters local: logs
    logToUse,       \* getLatestValueWithFilters local: logToUse (or the log of the unfiltered path)
    into,           \* GetLatestValue argument: what was written to the caller's target
    decodeStep,     \* the step of decodeLog that t's call returned from, or None
    codecConfig,    \* codec: the configuration the codec was built from, by name
    codecOp         \* codec: the last codec call, its arguments and its results

bindingVars == <<address, pending, bound, registerCalled>>
schemaVars == <<inputInfo, topicInfo, codecConfig, codecOp>>
glvVars == <<confs, hashes, logs, logToUse, into, decodeStep>>
callHistory == <<failed, lastBind>>
vars == <<address, pending, bound, registerCalled, lock, inputInfo, topicInfo,
          filters, lpLogs, pc, call, ret, entry, trace, everRegister, failed,
          lastBind, confs, hashes, logs, logToUse, into, decodeStep, codecConfig,
          codecOp>>

\* ------------------------------------------------------------- log source

\* logpoller.Filter as Register builds it.
Filter(b, addr) == [Name |-> id(b), EventSigs |-> <<hash(b)>>, Addresses |-> <<addr>>]

\* The log source as a keyed collection of filters.
HasFilter(fs, name) == Len(fs[name]) > 0

RegisterFilter(fs, f) == [fs EXCEPT ![f.Name] = Append(@, f)]

UnregisterFilter(fs, name) == [fs EXCEPT ![name] = <<>>]

\* One entry of a call's record of log-source calls.
LpCall(op, name, addr, c, slot, topics, err) ==
    [op |-> op, name |-> name, addr |-> addr, confs |-> c, slot |-> slot, topics |-> topics,
     err |-> err]

\* A log: its position, its emitting address and its topics (topic slot s is
\* Topics[s + 1]; slot 0 is the event signature).
TopicSeqs == {<<"EventSig", "h1">> \o s :
                 s \in UNION {[1..n -> Hashes] : n \in 0..(maxTopicFields - 1)}}

Log(p, topics) == [BlockNumber |-> p[1], LogIndex |-> p[2], Address |-> HexToAddress("0xA"),
                   Topics |-> topics]

\* The stores the log source may hold: at most MaxLogs logs, each at its own
\* (block number, log index).
LogStores == UNION {{{Log(p, f[p]) : p \in P} : f \in [P -> TopicSeqs]} :
                       P \in {Q \in SUBSET Positions : Cardinality(Q) <= MaxLogs}}

\* The store of the specification's example: three candidates of event
\* EventSig at address 0xA, of which one carries <<h1, h2>>.
ExampleLogs == {Log(<<10, 2>>, <<"EventSig", "h1", "h1">>),
                Log(<<10, 5>>, <<"EventSig", "h1", "h2">>),
                Log(<<12, 0>>, <<"EventSig", "h1", "h1">>)}

\* Blocks the log source holds as finalized; later blocks are unconfirmed.
FinalizedBlocks == {10}

Visible(l, c) == c = Unconfirmed \/ l.BlockNumber \in FinalizedBlocks

\* All orders in which a set of logs can be returned.
RECURSIVE Orders(_)
Orders(S) == IF S = {} THEN {<<>>}
             ELSE UNION {{<<l>> \o o : o \in Orders(S \ {l})} : l \in S}

\* IndexedLogs: the logs of (eventSig, address) whose topic slot topicIndex is
\* one of topicValues, under the confirmation policy, in any order.
IndexedLogs(store, eventSig, addr, topicIndex, topicValues, c) ==
    Orders({l \in store : /\ l.Topics[1] = eventSig
                          /\ l.Address = addr
                          /\ Len(l.Topics) > topicIndex
                          /\ l.Topics[topicIndex + 1] \in topicValues
                          /\ Visible(l, c)})

\* LatestLogByEventSigWithConfs: the newest log of (eventSig, address) under
\* the confirmation policy; with none, the query fails with "no rows".
LatestLogByEventSigWithConfs(store, eventSig, addr, c) ==
    LET m == {l \in store : l.Topics[1] = eventSig /\ l.Address = addr /\ Visible(l, c)}
    IN  IF m = {} THEN [err |-> "sql: no rows in result set", log |-> <<>>]
        ELSE [err |-> Nil,
              log |-> <<CHOOSE l \in m : \A o \in m :
                          \/ o.BlockNumber < l.BlockNumber
                          \/ o.BlockNumber = l.BlockNumber /\ o.LogIndex <= l.LogIndex>>]

\* ------------------------------------------------------------ pure helpers

\* strings.Contains(errStr, "not found") and strings.Contains(errStr, "no rows")
\* on the messages of LogSourceErrors.
ContainsNotFound(msg) == msg \in {"block not found"}
ContainsNoRows(msg) == msg \in {"sql: no rows in result set"}

wrapInternalErr(err) ==
    IF err = Nil THEN Nil
    ELSE IF ContainsNotFound(err) \/ ContainsNoRows(err) THEN ErrNotFound
    ELSE ErrInternal

\* Mutant: the comparison looks at the block number only.
compareLogsBlockOnly(log, use) ==
    IF use = <<>> THEN 1 ELSE log.BlockNumber - use[1].BlockNumber

\* compareLogs: use is <<>> (nil) or <<log>>.
compareLogs(log, use) ==
    IF use = <<>> THEN 1
    ELSE IF log.BlockNumber # use[1].BlockNumber
         THEN log.BlockNumber - use[1].BlockNumber
         ELSE log.LogIndex - use[1].LogIndex

\* matchesRemainingFilters: "match", "mismatch", or Panic when the loop
\* indexes log.Topics[i+2] past its end before finding a mismatch.
RECURSIVE matchesFrom(_, _, _)
matchesFrom(log, fs, j) ==
    IF j > Len(fs) THEN "match"
    ELSE IF j + 2 > Len(log.Topics) THEN Panic
    ELSE IF fs[j] # log.Topics[j + 2] THEN "mismatch"
    ELSE matchesFrom(log, fs, j + 1)

\* Mutant: the loop compares with log.Topics[i+1], one slot too early.
RECURSIVE matchesFromSlot1(_, _, _)
matchesFromSlot1(log, fs, j) ==
    IF j > Len(fs) THEN "match"
    ELSE IF j + 1 > Len(log.Topics) THEN Panic
    ELSE IF fs[j] # log.Topics[j + 1] THEN "mismatch"
    ELSE matchesFromSlot1(log, fs, j + 1)

matchesOneSlotEarly(log, fs) == matchesFromSlot1(log, fs, 1)

\* Mutant: the loop returns after its first iteration.
matchesFirstFilterOnly(log, fs) ==
    IF fs = <<>> THEN "match" ELSE matchesFrom(log, <<fs[1]>>, 1)

matchesRemainingFilters(log, fs) == matchesFrom(log, fs, 1)

\* The candidate loop of getLatestValueWithFilters from index i on, with
\* logToUse = use: the final logToUse, or a panic.
RECURSIVE selectFrom(_, _, _, _)
selectFrom(ls, fs, i, use) ==
    IF i > Len(ls) THEN [use |-> use, panicked |-> FALSE]
    ELSE IF compareLogs(ls[i], use) > 0
         THEN LET m == matchesRemainingFilters(ls[i], fs)
              IN  IF m = Panic THEN [use |-> use, panicked |-> TRUE]
                  ELSE IF m = "match" THEN selectFrom(ls, fs, i + 1, <<ls[i]>>)
                  ELSE selectFrom(ls, fs, i + 1, use)
         ELSE selectFrom(ls, fs, i + 1, use)

selectLog(ls, fs) == selectFrom(ls, fs, 1, <<>>)

\* What decodeLog has written to the caller's target: the data fields, the
\* topic fields.
NoInto == [data |-> FALSE, topics |-> FALSE]
DataOnly == [data |-> TRUE, topics |-> FALSE]

\* decodeLog line 239: codec.Decode fails, with the codec's error.
DecodeFails ==
    {[ret |-> e, into |-> NoInto, step |-> "Decode"] : e \in {ErrInvalidType, ErrInternal}}

\* decodeLog lines 243-257 for a log with enough topics: abi.ParseTopics
\* fails, mapstructureDecode fails, or the topic fields are written.
TopicsDecoded ==
    {[ret |-> ErrInvalidType, into |-> DataOnly, step |-> "ParseTopics"],
     [ret |-> ErrInvalidType, into |-> DataOnly, step |-> "mapstructureDecode"],
     [ret |-> Nil, into |-> [data |-> TRUE, topics |-> TRUE], step |-> "return"]}

\* Mutant: the topics are counted before the data payload is decoded.
decodeLogCountsFirst(log, nTopics) ==
    IF Len(log.Topics) < nTopics + 1
    THEN {[ret |-> ErrInvalidType, into |-> NoInto, step |-> "topics"]}
    ELSE DecodeFails \cup TopicsDecoded

\* decodeLog: the outcomes for a log on a binding with nTopics topic fields.
\* codec.Decode fails, or it writes the data fields and the topics are
\* counted (line 244) and decoded.
decodeLog(log, nTopics) ==
    DecodeFails
    \cup (IF Len(log.Topics) < nTopics + 1
          THEN {[ret |-> ErrInvalidType, into |-> DataOnly, step |-> "topics"]}
          ELSE TopicsDecoded)

\* ------------------------------------------------------------------- codec
\* The remote codec: its schemas are those of codec_test.go; NewCodec, the
\* size bound, Encode, Decode and the modifiers follow the design's contract.

\* ABI type descriptors.
Scalar(tag) == [kind |-> "scalar", tag |-> tag, size |-> 0, sub |-> <<>>]
StringT == [kind |-> "string", tag |-> "string", size |-> 0, sub |-> <<>>]
Arg(name, type) == [Name |-> name, Type |-> type]
ArrayT(k, t) == [kind |-> "array", tag |-> "", size |-> k, sub |-> <<Arg("", t)>>]
SliceT(t) == [kind |-> "slice", tag |-> "", size |-> 0, sub |-> <<Arg("", t)>>]
TupleT(members) == [kind |-> "tuple", tag |-> "", size |-> 0, sub |-> members]

inner == <<Arg("I", Scalar("int64")), Arg("S", StringT)>>

nested == <<Arg("FixedBytes", Scalar("bytes2")), Arg("Inner", TupleT(inner))>>

ts == <<Arg("Field", Scalar("int32")),
        Arg("DifferentField", StringT),
        Arg("OracleId", Scalar("uint8")),
        Arg("OracleIds", ArrayT(32, Scalar("uint8"))),
        Arg("Account", Scalar("address")),
        Arg("Accounts", SliceT(Scalar("address"))),
        Arg("BigField", Scalar("int192")),
        Arg("NestedStruct", TupleT(nested))>>

TestItemType == "TestItem"
TestItemSliceType == "TestItemSlice"
TestItemArray1Type == "TestItemArray1"
TestItemArray2Type == "TestItemArray2"
sizeItemType == "item for size"
TestItemWithConfigExtra == "TestItemWithConfigExtra"

Items == {TestItemType, TestItemSliceType, TestItemArray1Type, TestItemArray2Type,
          sizeItemType, TestItemWithConfigExtra}

codecDefs ==
    [k \in Items |->
        CASE k = TestItemType -> ts
          [] k = TestItemSliceType -> <<Arg("", SliceT(TupleT(ts)))>>
          [] k = TestItemArray1Type -> <<Arg("", ArrayT(1, TupleT(ts)))>>
          [] k = TestItemArray2Type -> <<Arg("", ArrayT(2, TupleT(ts)))>>
          [] k = sizeItemType -> <<Arg("Stuff", SliceT(Scalar("int256"))),
                                   Arg("OtherStuff", Scalar("int256"))>>
          [] k = TestItemWithConfigExtra -> ts]

\* parseDefs: the schemas as the tests hand them to GetMaxSize (a JSON round
\* trip of codecDefs).
parseDefs == [k \in Items |-> codecDefs[k]]

\* The test struct of seed i (CreateTestStruct): every field depends on i, and
\* signed fields take negative values.
TestStruct(i) ==
    [Field |-> i - 1,
     DifferentField |-> [j \in 1..i |-> 97 + j],
     OracleId |-> i + 1,
     OracleIds |-> [j \in 1..32 |-> IF j = 1 THEN i ELSE j],
     Account |-> 20 + i,
     Accounts |-> [j \in 1..i |-> 30 + j],
     BigField |-> 0 - (i + 1),
     NestedStruct |-> [FixedBytes |-> i, Inner |-> [I |-> 0 - i, S |-> <<i>>]]]

anyExtraValue == 3

\* Modifiers.  A hard-code modifier fixes on-chain fields on the way to the
\* chain and off-chain fields on the way back, removing the others' fixed
\* fields; a rename modifier renames one field.
HardCodeModifier(onChain, offChain) ==
    [kind |-> "hardcode", onChain |-> onChain, offChain |-> offChain, on |-> "", off |-> ""]
RenameModifier(onName, offName) ==
    [kind |-> "rename", onChain |-> <<>>, offChain |-> <<>>, on |-> onName, off |-> offName]

\* The modifier GetCodec configures for TestItemWithConfigExtra.
TestHardCode ==
    HardCodeModifier([BigField |-> TestStruct(0).BigField, Account |-> TestStruct(0).Account],
                     [ExtraField |-> anyExtraValue])

\* GetCodec: every item with its schema; TestItemWithConfigExtra with the
\* hard-code modifier.
GetCodec ==
    [k \in Items |->
        [TypeABI |-> codecDefs[k],
         ModifierConfigs |-> IF k = TestItemWithConfigExtra THEN <<TestHardCode>> ELSE <<>>]]

\* A configuration with two chained modifiers that do not commute: the field
\* the hard-code modifier synthesises (ExtraField) is renamed to Extra.
ChainedCodec ==
    [GetCodec EXCEPT ![TestItemWithConfigExtra].ModifierConfigs =
        <<RenameModifier("ExtraField", "Extra"), TestHardCode>>]

\* Replace the fields `drop` of record v by the fields of `set`.
Substitute(v, drop, set) ==
    [f \in (DOMAIN v \ drop) \cup DOMAIN set |-> IF f \in DOMAIN set THEN set[f] ELSE v[f]]

\* One modifier's forward transform (off-chain -> on-chain shape).
Forward(m, v) ==
    IF m.kind = "hardcode" THEN Substitute(v, DOMAIN m.offChain, m.onChain)
    ELSE IF m.off \in DOMAIN v THEN Substitute(v, {m.off}, (m.on :> v[m.off]))
    ELSE v

\* One modifier's inverse transform (on-chain -> off-chain shape).
Inverse(m, v) ==
    IF m.kind = "hardcode" THEN Substitute(v, DOMAIN m.onChain, m.offChain)
    ELSE IF m.on \in DOMAIN v THEN Substitute(v, {m.on}, (m.off :> v[m.on]))
    ELSE v

\* The order in which a chain's modifiers are applied: configured order
\* before encoding, the reverse after decoding.
ForwardOrder(chain) == [i \in 1..Len(chain) |-> i]

\* Mutant: the inverse transforms run in the configured order.
InverseOrderAsConfigured(chain) == [i \in 1..Len(chain) |-> i]

InverseOrder(chain) == [i \in 1..Len(chain) |-> Len(chain) - i + 1]

RECURSIVE applyForward(_, _, _, _)
applyForward(chain, order, i, v) ==
    IF i > Len(order) THEN v
    ELSE applyForward(chain, order, i + 1, Forward(chain[order[i]], v))

RECURSIVE applyInverse(_, _, _, _)
applyInverse(chain, order, i, v) ==
    IF i > Len(order) THEN v
    ELSE applyInverse(chain, order, i + 1, Inverse(chain[order[i]], v))

TransformForOnChain(chain, v) == applyForward(chain, ForwardOrder(chain), 1, v)

TransformForOffChain(chain, v) == applyInverse(chain, InverseOrder(chain), 1, v)

\* The primitive wire format: one word per scalar, signed scalars in two's
\* complement of the word (the word is scaled to WordModulus values), a
\* length word before the elements of a slice or string, members in order.
WordModulus == 256

Signed(tag) == tag \in {"int32", "int64", "int192", "int256"}

ToWord(tag, x) == IF Signed(tag) /\ x < 0 THEN WordModulus + x ELSE x

FromWord(tag, w) == IF Signed(tag) /\ 2 * w >= WordModulus THEN w - WordModulus ELSE w

RECURSIVE abiEncode(_, _)
RECURSIVE abiEncodeSeq(_, _, _)
RECURSIVE abiEncodeArgs(_, _, _)

abiEncode(t, x) ==
    CASE t.kind = "scalar" -> <<ToWord(t.tag, x)>>
      [] t.kind = "string" -> <<Len(x)>> \o x
      [] t.kind = "array" -> abiEncodeSeq(t.sub[1].Type, x, 1)
      [] t.kind = "slice" -> <<Len(x)>> \o abiEncodeSeq(t.sub[1].Type, x, 1)
      [] t.kind = "tuple" -> abiEncodeArgs(t.sub, x, 1)

abiEncodeSeq(t, xs, i) ==
    IF i > Len(xs) THEN <<>> ELSE abiEncode(t, xs[i]) \o abiEncodeSeq(t, xs, i + 1)

abiEncodeArgs(args, x, i) ==
    IF i > Len(args) THEN <<>>
    ELSE abiEncode(args[i].Type, x[args[i].Name]) \o abiEncodeArgs(args, x, i + 1)

RECURSIVE abiDecode(_, _)
RECURSIVE abiDecodeSeq(_, _, _, _)
RECURSIVE abiDecodeArgs(_, _, _, _)

\* The value of type t at the head of words w, and the words after it.
abiDecode(t, w) ==
    CASE t.kind = "scalar" -> [val |-> FromWord(t.tag, w[1]), rest |-> Tail(w)]
      [] t.kind = "string" -> [val |-> SubSeq(w, 2, w[1] + 1),
                               rest |-> SubSeq(w, w[1] + 2, Len(w))]
      [] t.kind = "array" -> abiDecodeSeq(t.sub[1].Type, t.size, w, <<>>)
      [] t.kind = "slice" -> abiDecodeSeq(t.sub[1].Type, w[1], Tail(w), <<>>)
      [] t.kind = "tuple" -> abiDecodeArgs(t.sub, 1, w, <<>>)

abiDecodeSeq(t, k, w, acc) ==
    IF k = 0 THEN [val |-> acc, rest |-> w]
    ELSE LET d == abiDecode(t, w) IN abiDecodeSeq(t, k - 1, d.rest, Append(acc, d.val))

abiDecodeArgs(args, i, w, acc) ==
    IF i > Len(args) THEN [val |-> acc, rest |-> w]
    ELSE LET d == abiDecode(args[i].Type, w)
         IN  abiDecodeArgs(args, i + 1, d.rest, acc @@ (args[i].Name :> d.val))

\* An item whose schema is one unnamed argument is that argument's value.
Unnamed(args) == Len(args) = 1 /\ args[1].Name = ""

ArgNames(args) == {args[i].Name : i \in 1..Len(args)}

\* Encode: forward transforms, then the primitive encoding.
Encode(config, x, itemType) ==
    IF itemType \notin DOMAIN config THEN [err |-> ErrInvalidType, bytes |-> <<>>]
    ELSE LET args == config[itemType].TypeABI
             onChain == TransformForOnChain(config[itemType].ModifierConfigs, x)
         IN  IF Unnamed(args) THEN [err |-> Nil, bytes |-> abiEncode(args[1].Type, onChain)]
             ELSE IF DOMAIN onChain # ArgNames(args)
                  THEN [err |-> ErrInvalidType, bytes |-> <<>>]
                  ELSE [err |-> Nil, bytes |-> abiEncodeArgs(args, onChain, 1)]

\* Decode: the primitive decoding, then the inverse transforms.
Decode(config, raw, itemType) ==
    IF itemType \notin DOMAIN config THEN [err |-> ErrInvalidType, val |-> <<>>]
    ELSE LET args == config[itemType].TypeABI
             onChain == IF Unnamed(args) THEN abiDecode(args[1].Type, raw).val
                        ELSE abiDecodeArgs(args, 1, raw, <<>>).val
         IN  [err |-> Nil,
              val |-> TransformForOffChain(config[itemType].ModifierConfigs, onChain)]

\* The size bound.  A dynamic type is encoded out of line, behind an offset
\* slot: a string, a slice, or an array or tuple that holds one.
SlotBytes == 32

RECURSIVE IsDynamic(_)
IsDynamic(t) ==
    CASE t.kind \in {"string", "slice"} -> TRUE
      [] t.kind = "scalar" -> FALSE
      [] t.kind = "array" -> IsDynamic(t.sub[1].Type)
      [] t.kind = "tuple" -> \E i \in 1..Len(t.sub) : IsDynamic(t.sub[i].Type)

RECURSIVE typeSize(_, _)
RECURSIVE argsSize(_, _, _)

\* Scalars one slot; fixed arrays width x count; slices a length slot plus
\* width x n (a string: n bytes); tuples the sum of their members.
typeSize(n, t) ==
    CASE t.kind = "scalar" -> SlotBytes
      [] t.kind = "string" -> SlotBytes + n
      [] t.kind = "array" -> t.size * typeSize(n, t.sub[1].Type)
      [] t.kind = "slice" -> SlotBytes + n * typeSize(n, t.sub[1].Type)
      [] t.kind = "tuple" -> argsSize(n, t.sub, 1)

\* The members from i on, with an offset slot for each dynamic member.
argsSize(n, args, i) ==
    IF i > Len(args) THEN 0
    ELSE typeSize(n, args[i].Type)
         + (IF IsDynamic(args[i].Type) THEN SlotBytes ELSE 0)
         + argsSize(n, args, i + 1)

GetMaxSize(n, args) == argsSize(n, args, 1)

\* Mutant: the decoding bound leaves out the last argument.
GetMaxDecodingSizeShort(config, n, itemType) ==
    IF itemType \notin DOMAIN config THEN [err |-> ErrInvalidType, size |-> 0]
    ELSE [err |-> Nil,
          size |-> GetMaxSize(n, SubSeq(config[itemType].TypeABI, 1,
                                        Len(config[itemType].TypeABI) - 1))]

GetMaxEncodingSize(config, n, itemType) ==
    IF itemType \notin DOMAIN config THEN [err |-> ErrInvalidType, size |-> 0]
    ELSE [err |-> Nil, size |-> GetMaxSize(n, config[itemType].TypeABI)]

GetMaxDecodingSize(config, n, itemType) ==
    IF itemType \notin DOMAIN config THEN [err |-> ErrInvalidType, size |-> 0]
    ELSE [err |-> Nil, size |-> GetMaxSize(n, config[itemType].TypeABI)]

\* ------------------------------------------------------------------- state

Methods == {"Register", "Unregister", "Bind", "GetLatestValue"}

NoCall == [op |-> None, b |-> None, Address |-> "", Pending |-> FALSE]

\* The binding's fields and filters as a caller finds them.
Snapshot(b) == [address |-> address[b], pending |-> pending[b], bound |-> bound[b],
                registerCalled |-> registerCalled[b], filters |-> filters[id(b)]]

NoEntry == [address |-> ZeroAddress, pending |-> FALSE, bound |-> FALSE,
            registerCalled |-> FALSE, filters |-> <<>>]

\* No codec call yet.
NoCodecOp == [op |-> None, item |-> None, n |-> 0, value |-> <<>>, applied |-> <<>>,
              bytes |-> <<>>, out |-> <<>>, size |-> 0, err |-> None]

\* The state after construction, common to every specification: unbound
\* bindings, no filter, idle callers.
InitBindings ==
    /\ address = [b \in Bindings |-> ZeroAddress]
    /\ pending = [b \in Bindings |-> FALSE]
    /\ bound = [b \in Bindings |-> FALSE]
    /\ registerCalled = [b \in Bindings |-> FALSE]
    /\ lock = [b \in Bindings |-> None]
    /\ filters = [n \in {id(b) : b \in Bindings} |-> <<>>]
    /\ pc = [t \in Threads |-> "idle"]
    /\ call = [t \in Threads |-> NoCall]
    /\ ret = [t \in Threads |-> None]
    /\ entry = [t \in Threads |-> NoEntry]
    /\ trace = [t \in Threads |-> <<>>]
    /\ everRegister = [b \in Bindings |-> FALSE]
    /\ failed = [b \in Bindings |-> FALSE]
    /\ lastBind = [b \in Bindings |-> [returned |-> <<>>, written |-> <<>>]]
    /\ confs = [t \in Threads |-> None]
    /\ hashes = [t \in Threads |-> <<>>]
    /\ logs = [t \in Threads |-> <<>>]
    /\ logToUse = [t \in Threads |-> <<>>]
    /\ into = [t \in Threads |-> NoInto]
    /\ decodeStep = [t \in Threads |-> None]
    /\ codecOp = NoCodecOp

\* b1 filters on two indexed fields, b2 on none; the event has two indexed
\* fields.
Init ==
    /\ InitBindings
    /\ inputInfo = [b \in Bindings |-> IF b = "b1" THEN 2 ELSE 0]
    /\ topicInfo = [b \in Bindings |-> 2]
    /\ lpLogs = ExampleLogs
    /\ codecConfig = "GetCodec"

\* ----------------------------------------------------------- call plumbing

\* Mutant: Bind replaces the address without unregistering first.
BindEntryWithoutUnregister == "Bind.address"

\* The first step of each method.  Bind starts by calling Unregister.
BindEntry == "Unregister.lock"

EntryPoint(op) == CASE op = "Register" -> "Register.lock"
                    [] op = "Unregister" -> "Unregister.lock"
                    [] op = "Bind" -> BindEntry
                    [] op = "GetLatestValue" -> "GetLatestValue.bound"

\* A caller invokes method op of binding b.
Invoke(t, op, b, addr, pend) ==
    /\ pc[t] = "idle"
    /\ pc' = [pc EXCEPT ![t] = EntryPoint(op)]
    /\ call' = [call EXCEPT ![t] = [op |-> op, b |-> b, Address |-> addr, Pending |-> pend]]
    /\ entry' = [entry EXCEPT ![t] = Snapshot(b)]
    /\ everRegister' = [everRegister EXCEPT ![b] = @ \/ op = "Register"]
    /\ UNCHANGED <<bindingVars, schemaVars, lock, filters, lpLogs, ret, trace, callHistory,
                   glvVars>>

\* The address and pending flag t's Bind was given.
BindArgs(t) == [Address |-> HexToAddress(call[t].Address), Pending |-> call[t].Pending]

\* t's returned Bind got past its Unregister call, to the assignments of
\* lines 103-105.
PastUnregister(t) ==
    \A i \in 1..Len(trace[t]) : trace[t][i].op = "UnregisterFilter" => trace[t][i].err = Nil

\* The call's frame is popped: its locals are gone.
Return(t) ==
    /\ pc[t] = "done"
    /\ pc' = [pc EXCEPT ![t] = "idle"]
    /\ call' = [call EXCEPT ![t] = NoCall]
    /\ ret' = [ret EXCEPT ![t] = None]
    /\ entry' = [entry EXCEPT ![t] = NoEntry]
    /\ trace' = [trace EXCEPT ![t] = <<>>]
    /\ confs' = [confs EXCEPT ![t] = None]
    /\ hashes' = [hashes EXCEPT ![t] = <<>>]
    /\ logs' = [logs EXCEPT ![t] = <<>>]
    /\ logToUse' = [logToUse EXCEPT ![t] = <<>>]
    /\ into' = [into EXCEPT ![t] = NoInto]
    /\ decodeStep' = [decodeStep EXCEPT ![t] = None]
    /\ failed' = [failed EXCEPT ![call[t].b] =
                     @ \/ (call[t].op # "GetLatestValue" /\ ret[t] # Nil)]
    /\ lastBind' = IF call[t].op # "Bind" THEN lastBind
                   ELSE [lastBind EXCEPT ![call[t].b] =
                            [returned |-> IF ret[t] = Nil THEN <<BindArgs(t)>> ELSE @.returned,
                             written |-> IF PastUnregister(t) THEN <<BindArgs(t)>>
                                         ELSE @.written]]
    /\ UNCHANGED <<bindingVars, schemaVars, lock, filters, lpLogs, everRegister>>

\* The method returns r to its caller.
Finish(t, r) ==
    /\ pc' = [pc EXCEPT ![t] = "done"]
    /\ ret' = [ret EXCEPT ![t] = r]

\* ---------------------------------------------------------------- Register

\* Mutant: Register does not ask the log source whether a filter exists.
RegisterSkipsUnboundOnly(b) == ~bound[b]

\* Register's early return: nothing to do unless bound and without a filter.
\* HasFilter is only called when the binding is bound.
RegisterSkips(b) == ~bound[b] \/ HasFilter(filters, id(b))

\* e.lock.Lock() of Register (line 49), Unregister (line 68): the caller
\* waits until the lock is free and takes it.
\* Mutant: Register and Unregister return without unlocking.
UnlockForgotten(t) == t

\* defer e.lock.Unlock() (lines 50, 69): the holder of the lock once
\* Register or Unregister, called by t, has returned.
deferredUnlock(t) == None

Lock(t, at, next) ==
    LET b == call[t].b IN
    /\ pc[t] = at
    /\ lock[b] = None
    /\ lock' = [lock EXCEPT ![b] = t]
    /\ pc' = [pc EXCEPT ![t] = next]
    /\ UNCHANGED <<bindingVars, schemaVars, filters, lpLogs, call, ret, entry, trace,
                   everRegister, callHistory, glvVars>>

RegisterLock(t) == Lock(t, "Register.lock", "Register.enter")

\* Mutant: the flag is set after the early return, so only when bound.
RegisterLatchWhenBound(b) == registerCalled[b] \/ bound[b]

\* Register line 52: the value the register-requested flag takes.
RegisterLatch(b) == TRUE

\* Register lines 52-55 under the lock: the latch and the early return, on
\* which the deferred Unlock runs.
RegisterEnter(t) ==
    LET b == call[t].b IN
    /\ pc[t] = "Register.enter"
    /\ lock[b] = t
    /\ registerCalled' = [registerCalled EXCEPT ![b] = RegisterLatch(b)]
    /\ trace' = [trace EXCEPT ![t] =
                    IF bound[b]
                    THEN Append(@, LpCall("HasFilter", id(b), ZeroAddress, None, 0, <<>>, Nil))
                    ELSE @]
    /\ IF RegisterSkips(b)
       THEN /\ Finish(t, Nil)
            /\ lock' = [lock EXCEPT ![b] = deferredUnlock(t)]
       ELSE /\ pc' = [pc EXCEPT ![t] = "Register.filter"]
            /\ UNCHANGED <<ret, lock>>
    /\ UNCHANGED <<address, pending, bound, schemaVars, filters, lpLogs, call, entry,
                   everRegister, callHistory, glvVars>>

\* Mutant: the error of the filter operation is dropped.
FilterErrDropped(err) == Nil

\* Mutant: a filter failure is classified by its message, as a query failure is.
FilterErrClassified(err) == wrapInternalErr(err)

\* The error Register and Unregister return for the log source's err:
\* fmt.Errorf("%w: %w", commontypes.ErrInternal, err), whatever the message.
FilterErr(err) == IF err = Nil THEN Nil ELSE ErrInternal

\* Register's RegisterFilter call with the address as it is now, the error
\* wrapping, and the deferred Unlock.
RegisterFilterCall(t) ==
    LET b == call[t].b IN
    /\ pc[t] = "Register.filter"
    /\ lock[b] = t
    /\ \E err \in {Nil} \cup LogSourceErrors :
          /\ filters' = IF err = Nil THEN RegisterFilter(filters, Filter(b, address[b]))
                        ELSE filters
          /\ trace' = [trace EXCEPT ![t] =
                          Append(@, LpCall("RegisterFilter", id(b), address[b], None, 0, <<>>,
                                           err))]
          /\ Finish(t, FilterErr(err))
    /\ lock' = [lock EXCEPT ![b] = deferredUnlock(t)]
    /\ UNCHANGED <<bindingVars, schemaVars, lpLogs, call, entry, everRegister, callHistory,
                   glvVars>>

\* -------------------------------------------------------------- Unregister

\* Mutant: Unregister runs on into the assignments of Bind.
AfterUnregisterFallsThrough(t) == "Bind.address"

\* Where a successful Unregister returns to: its caller, or Bind's line 103.
AfterUnregister(t) == IF call[t].op = "Bind" THEN "Bind.address" ELSE "done"

UnregisterLock(t) == Lock(t, "Unregister.lock", "Unregister.enter")

\* Unregister lines 71-73 under the lock: the HasFilter check and the early
\* return, on which the deferred Unlock runs.
UnregisterEnter(t) ==
    LET b == call[t].b IN
    /\ pc[t] = "Unregister.enter"
    /\ lock[b] = t
    /\ trace' = [trace EXCEPT ![t] =
                    Append(@, LpCall("HasFilter", id(b), ZeroAddress, None, 0, <<>>, Nil))]
    /\ IF ~HasFilter(filters, id(b))
       THEN /\ pc' = [pc EXCEPT ![t] = AfterUnregister(t)]
            /\ ret' = [ret EXCEPT ![t] = IF AfterUnregister(t) = "done" THEN Nil ELSE @]
            /\ lock' = [lock EXCEPT ![b] = deferredUnlock(t)]
       ELSE /\ pc' = [pc EXCEPT ![t] = "Unregister.filter"]
            /\ UNCHANGED <<ret, lock>>
    /\ UNCHANGED <<bindingVars, schemaVars, filters, lpLogs, call, entry, everRegister,
                   callHistory, glvVars>>

\* Mutant: Bind goes on after a failed Unregister.
BindIgnoresError(r) == FALSE

\* Bind lines 99-101: Bind returns what Unregister returned if it is an error.
BindReturnsError(r) == r # Nil

\* Unregister's UnregisterFilter call, the error wrapping and the deferred
\* Unlock.  Bind returns Unregister's error as it is.
UnregisterFilterCall(t) ==
    LET b == call[t].b IN
    /\ pc[t] = "Unregister.filter"
    /\ lock[b] = t
    /\ \E err \in {Nil} \cup LogSourceErrors :
          /\ filters' = IF err = Nil THEN UnregisterFilter(filters, id(b)) ELSE filters
          /\ trace' = [trace EXCEPT ![t] =
                          Append(@, LpCall("UnregisterFilter", id(b), ZeroAddress, None, 0, <<>>,
                                           err))]
          /\ IF err = Nil
             THEN /\ pc' = [pc EXCEPT ![t] = AfterUnregister(t)]
                  /\ ret' = [ret EXCEPT ![t] = IF AfterUnregister(t) = "done" THEN Nil ELSE @]
             ELSE IF call[t].op = "Bind" /\ ~BindReturnsError(FilterErr(err))
                  THEN /\ pc' = [pc EXCEPT ![t] = "Bind.address"]
                       /\ UNCHANGED ret
                  ELSE Finish(t, FilterErr(err))
    /\ lock' = [lock EXCEPT ![b] = deferredUnlock(t)]
    /\ UNCHANGED <<bindingVars, schemaVars, lpLogs, call, entry, everRegister, callHistory,
                   glvVars>>

\* -------------------------------------------------------------------- Bind

\* Bind line 103: e.address = common.HexToAddress(binding.Address)
BindAddress(t) ==
    LET b == call[t].b IN
    /\ pc[t] = "Bind.address"
    /\ address' = [address EXCEPT ![b] = HexToAddress(call[t].Address)]
    /\ pc' = [pc EXCEPT ![t] = "Bind.pending"]
    /\ UNCHANGED <<pending, bound, registerCalled, schemaVars, lock, filters, lpLogs, call,
                   ret, entry, trace, everRegister, callHistory, glvVars>>

\* Bind line 104: e.pending = binding.Pending
BindPending(t) ==
    LET b == call[t].b IN
    /\ pc[t] = "Bind.pending"
    /\ pending' = [pending EXCEPT ![b] = call[t].Pending]
    /\ pc' = [pc EXCEPT ![t] = "Bind.bound"]
    /\ UNCHANGED <<address, bound, registerCalled, schemaVars, lock, filters, lpLogs, call,
                   ret, entry, trace, everRegister, callHistory, glvVars>>

\* Bind line 105: e.bound = true
BindBound(t) ==
    LET b == call[t].b IN
    /\ pc[t] = "Bind.bound"
    /\ bound' = [bound EXCEPT ![b] = TRUE]
    /\ pc' = [pc EXCEPT ![t] = "Bind.register"]
    /\ UNCHANGED <<address, pending, registerCalled, schemaVars, lock, filters, lpLogs, call,
                   ret, entry, trace, everRegister, callHistory, glvVars>>

\* Mutant: Bind registers whether or not registration was requested.
BindAlwaysRegisters(b) == TRUE

\* Bind line 107: whether Bind goes on to call Register.
BindReRegisters(b) == registerCalled[b]

\* Bind lines 107-110.
BindRegister(t) ==
    LET b == call[t].b IN
    /\ pc[t] = "Bind.register"
    /\ IF BindReRegisters(b)
       THEN /\ pc' = [pc EXCEPT ![t] = "Register.lock"]
            /\ UNCHANGED ret
       ELSE Finish(t, Nil)
    /\ UNCHANGED <<bindingVars, schemaVars, lock, filters, lpLogs, call, entry, trace,
                   everRegister, callHistory, glvVars>>

\* ---------------------------------------------------------- GetLatestValue

\* GetLatestValue lines 82-84: the bound check, without the lock.
GetLatestValueBound(t) ==
    LET b == call[t].b IN
    /\ pc[t] = "GetLatestValue.bound"
    /\ IF ~bound[b]
       THEN Finish(t, ErrInvalidType)
       ELSE /\ pc' = [pc EXCEPT ![t] = "GetLatestValue.pending"]
            /\ UNCHANGED ret
    /\ UNCHANGED <<bindingVars, schemaVars, lock, filters, lpLogs, call, entry, trace,
                   everRegister, callHistory, glvVars>>

\* Mutant: the pending flag is not consulted.
ConfsAlwaysFinalized(p) == Finalized

\* The confirmation policy for a pending flag.
Confs(p) == IF p THEN Unconfirmed ELSE Finalized

\* GetLatestValue lines 86-95: the confirmation policy from the pending
\* flag, and the choice of path from the input schema.
GetLatestValuePending(t) ==
    LET b == call[t].b IN
    /\ pc[t] = "GetLatestValue.pending"
    /\ confs' = [confs EXCEPT ![t] = Confs(pending[b])]
    /\ pc' = [pc EXCEPT ![t] = IF inputInfo[b] = 0
                               THEN "getLatestValueWithoutFilters"
                               ELSE "getLatestValueWithFilters.encode"]
    /\ UNCHANGED <<bindingVars, schemaVars, lock, filters, lpLogs, call, ret, entry, trace,
                   everRegister, callHistory, hashes, logs, logToUse, into, decodeStep>>

\* The call decodes log l and returns.
DecodeAndFinish(t, l) ==
    \E d \in decodeLog(l, topicInfo[call[t].b]) :
        /\ Finish(t, d.ret)
        /\ into' = [into EXCEPT ![t] = d.into]
        /\ decodeStep' = [decodeStep EXCEPT ![t] = d.step]

\* getLatestValueWithoutFilters: one query with the address as it is now,
\* then decodeLog.  The query may also fail for reasons of the log source.
getLatestValueWithoutFilters(t) ==
    LET b == call[t].b IN
    /\ pc[t] = "getLatestValueWithoutFilters"
    /\ \E r \in {LatestLogByEventSigWithConfs(lpLogs, hash(b), address[b], confs[t])}
                \cup {[err |-> m, log |-> <<>>] : m \in LogSourceErrors} :
          /\ trace' = [trace EXCEPT ![t] =
                          Append(@, LpCall("LatestLogByEventSigWithConfs", hash(b), address[b],
                                           confs[t], 0, <<>>, r.err))]
          /\ IF wrapInternalErr(r.err) # Nil
             THEN /\ Finish(t, wrapInternalErr(r.err))
                  /\ UNCHANGED <<logToUse, into, decodeStep>>
             ELSE /\ logToUse' = [logToUse EXCEPT ![t] = r.log]
                  /\ DecodeAndFinish(t, r.log[1])
    /\ UNCHANGED <<bindingVars, schemaVars, lock, filters, lpLogs, call, entry, everRegister,
                   callHistory,
                   confs, hashes, logs>>

\* getLatestValueWithFilters lines 124-138: the params are converted,
\* transformed and encoded to one topic hash per input field, or one of the
\* three conversions fails.
getLatestValueWithFiltersEncode(t) ==
    LET b == call[t].b IN
    /\ pc[t] = "getLatestValueWithFilters.encode"
    /\ \/ \E e \in {ErrInvalidType, ErrInternal} :
             /\ Finish(t, e)
             /\ UNCHANGED hashes
       \/ \E h \in [1..inputInfo[b] -> Hashes] :
             /\ hashes' = [hashes EXCEPT ![t] = h]
             /\ pc' = [pc EXCEPT ![t] = "getLatestValueWithFilters.query"]
             /\ UNCHANGED ret
    /\ UNCHANGED <<bindingVars, schemaVars, lock, filters, lpLogs, call, entry, trace,
                   everRegister, callHistory, confs, logs, logToUse, into, decodeStep>>

\* Mutant: every computed hash is sent to the log source.
NativeFilterAll(hs) == hs

\* Line 140: of the computed hashes, the first is the log source's filter.
NativeFilter(hs) == <<hs[1]>>

\* getLatestValueWithFilters lines 140-164: the IndexedLogs query on the
\* first hash with the address as it is now, the candidate loop, decodeLog.
getLatestValueWithFiltersQuery(t) ==
    LET b == call[t].b
        fai == NativeFilter(hashes[t])
        remainingFilters == Tail(hashes[t])
    IN
    /\ pc[t] = "getLatestValueWithFilters.query"
    /\ \/ \E m \in LogSourceErrors :
             /\ trace' = [trace EXCEPT ![t] =
                             Append(@, LpCall("IndexedLogs", hash(b), address[b], confs[t],
                                              1, fai, m))]
             /\ Finish(t, wrapInternalErr(m))
             /\ UNCHANGED <<logs, logToUse, into, decodeStep>>
       \/ \E ls \in IndexedLogs(lpLogs, hash(b), address[b], 1,
                                   {fai[i] : i \in 1..Len(fai)}, confs[t]) :
             LET sel == selectLog(ls, remainingFilters) IN
             /\ trace' = [trace EXCEPT ![t] =
                             Append(@, LpCall("IndexedLogs", hash(b), address[b], confs[t],
                                              1, fai, Nil))]
             /\ logs' = [logs EXCEPT ![t] = ls]
             /\ logToUse' = [logToUse EXCEPT ![t] = sel.use]
             /\ IF sel.panicked
                THEN Finish(t, Panic) /\ UNCHANGED <<into, decodeStep>>
                ELSE IF sel.use = <<>>
                     THEN Finish(t, ErrNotFound) /\ UNCHANGED <<into, decodeStep>>
                     ELSE DecodeAndFinish(t, sel.use[1])
    /\ UNCHANGED <<bindingVars, schemaVars, lock, filters, lpLogs, call, entry, everRegister,
                   callHistory,
                   confs, hashes>>

\* ------------------------------------------------------------ specification

\* A step of a call in progress.
Step(t) ==
    \/ RegisterLock(t)
    \/ RegisterEnter(t)
    \/ RegisterFilterCall(t)
    \/ UnregisterLock(t)
    \/ UnregisterEnter(t)
    \/ UnregisterFilterCall(t)
    \/ BindAddress(t)
    \/ BindPending(t)
    \/ BindBound(t)
    \/ BindRegister(t)
    \/ GetLatestValueBound(t)
    \/ GetLatestValuePending(t)
    \/ getLatestValueWithoutFilters(t)
    \/ getLatestValueWithFiltersEncode(t)
    \/ getLatestValueWithFiltersQuery(t)
    \/ Return(t)

\* A caller makes any call on any binding.
AnyCall(t) ==
    \/ \E b \in Bindings : \E op \in Methods \ {"Bind"} : Invoke(t, op, b, "", FALSE)
    \/ \E b \in Bindings : \E a \in AddressStrings : \E p \in BOOLEAN : Invoke(t, "Bind", b, a, p)

\* Sequential use: one caller, one call at a time.
Next == AnyCall("t1") \/ Step("t1")

Spec == Init /\ [][Next]_vars

\* The read path over every store the log source may hold and every schema of
\* binding b1 (k input fields of n indexed fields, k <= n <= maxTopicFields):
\* one caller binds b1 to 0xA and reads its latest value.
InitRead ==
    /\ InitBindings
    /\ \E k \in 0..maxTopicFields : \E n \in k..maxTopicFields :
          /\ inputInfo = [b \in Bindings |-> k]
          /\ topicInfo = [b \in Bindings |-> n]
    /\ lpLogs \in LogStores
    /\ codecConfig = "GetCodec"

StepRead(t) ==
    \/ UnregisterLock(t)
    \/ UnregisterEnter(t)
    \/ BindAddress(t)
    \/ BindPending(t)
    \/ BindBound(t)
    \/ BindRegister(t)
    \/ GetLatestValueBound(t)
    \/ GetLatestValuePending(t)
    \/ getLatestValueWithoutFilters(t)
    \/ getLatestValueWithFiltersEncode(t)
    \/ getLatestValueWithFiltersQuery(t)
    \/ Return(t)

ReadCall(t) ==
    \/ Invoke(t, "GetLatestValue", "b1", "", FALSE)
    \/ \E p \in BOOLEAN : ~bound["b1"] /\ Invoke(t, "Bind", "b1", "0xA", p)

NextRead == ReadCall("t1") \/ StepRead("t1")

SpecRead == InitRead /\ [][NextRead]_vars

\* Concurrent use of one binding: two callers make Bind, Register and
\* Unregister calls on b1 whose steps interleave.
StepConc(t) ==
    \/ RegisterLock(t)
    \/ RegisterEnter(t)
    \/ RegisterFilterCall(t)
    \/ UnregisterLock(t)
    \/ UnregisterEnter(t)
    \/ UnregisterFilterCall(t)
    \/ BindAddress(t)
    \/ BindPending(t)
    \/ BindBound(t)
    \/ BindRegister(t)
    \/ Return(t)

ConcCall(t) ==
    \/ \E op \in {"Register", "Unregister"} : Invoke(t, op, "b1", "", FALSE)
    \/ \E a \in {"0xA", "0xB"} : Invoke(t, "Bind", "b1", a, FALSE)

NextConc == \E t \in Threads : ConcCall(t) \/ StepConc(t)

SpecConc == Init /\ [][NextConc]_vars

\* A read racing a rebind: one caller binds a binding to 0xA with pending
\* false and then rebinds it to 0xB with pending true, while another caller
\* reads the binding's latest value; the steps of the two interleave.
StepRace(t) ==
    \/ UnregisterLock(t)
    \/ UnregisterEnter(t)
    \/ BindAddress(t)
    \/ BindPending(t)
    \/ BindBound(t)
    \/ BindRegister(t)
    \/ GetLatestValueBound(t)
    \/ GetLatestValuePending(t)
    \/ getLatestValueWithoutFilters(t)
    \/ getLatestValueWithFiltersEncode(t)
    \/ getLatestValueWithFiltersQuery(t)
    \/ Return(t)

RaceCall(t) ==
    \/ /\ t = "t1"
       /\ \E b \in Bindings :
             IF bound[b] THEN Invoke(t, "Bind", b, "0xB", TRUE)
                         ELSE Invoke(t, "Bind", b, "0xA", FALSE)
    \/ /\ t = "t2"
       /\ \E b \in Bindings : Invoke(t, "GetLatestValue", b, "", FALSE)

NextRace == \E t \in Threads : RaceCall(t) \/ StepRace(t)

SpecRace == Init /\ [][NextRace]_vars

\* Concurrent calls of every kind on one binding under fair scheduling: each
\* caller that can take a step eventually takes one, and a caller waiting
\* for the lock gets it when it is released again and again (sync.Mutex
\* hands the lock to a starving waiter).
StepLive(t) ==
    \/ RegisterLock(t)
    \/ RegisterEnter(t)
    \/ RegisterFilterCall(t)
    \/ UnregisterLock(t)
    \/ UnregisterEnter(t)
    \/ UnregisterFilterCall(t)
    \/ BindAddress(t)
    \/ BindPending(t)
    \/ BindBound(t)
    \/ BindRegister(t)
    \/ GetLatestValueBound(t)
    \/ GetLatestValuePending(t)
    \/ getLatestValueWithoutFilters(t)
    \/ Return(t)

LiveCall(t) ==
    \/ \E op \in Methods \ {"Bind"} : Invoke(t, op, "b2", "", FALSE)
    \/ Invoke(t, "Bind", "b2", "0xA", FALSE)

NextLive == \E t \in Threads : LiveCall(t) \/ StepLive(t)

Fairness ==
    \A t \in Threads :
        /\ WF_vars(StepLive(t))
        /\ SF_vars(RegisterLock(t) \/ UnregisterLock(t))

SpecLive == Init /\ [][NextLive]_vars /\ Fairness

\* The codec on its own: it is built from the test configuration or from the
\* chained one, and a caller asks for size bounds, encodes a value of an
\* item's off-chain type, and decodes what was encoded.
InitCodec ==
    /\ InitBindings
    /\ inputInfo = [b \in Bindings |-> 0]
    /\ topicInfo = [b \in Bindings |-> 0]
    /\ lpLogs = {}
    /\ codecConfig \in {"GetCodec", "ChainedCodec"}

\* The codec's registry: item -> its schema and modifier chain.
Config == IF codecConfig = "GetCodec" THEN GetCodec ELSE ChainedCodec

\* UNCHANGED for everything but the codec call.
bindingState == <<bindingVars, lock, inputInfo, topicInfo, filters, lpLogs, pc, call, ret,
                  entry, trace, everRegister, callHistory, glvVars,
                  codecConfig>>

Seeds == 0..MaxSeed

RECURSIVE SeqsUpTo(_, _)
\* The sequences over S of length at most k.
SeqsUpTo(S, k) ==
    IF k = 0 THEN {<<>>}
    ELSE LET shorter == SeqsUpTo(S, k - 1)
         IN  shorter \cup {Append(q, x) : q \in shorter, x \in S}

\* The name under which the off-chain type of TestItemWithConfigExtra carries
\* the synthesised field.
ExtraName(config) ==
    IF config[TestItemWithConfigExtra].ModifierConfigs = <<TestHardCode>>
    THEN "ExtraField" ELSE "Extra"

\* The values a caller holds of an item's off-chain type.
OffChainValues(config, itemType) ==
    CASE itemType = TestItemType -> {TestStruct(i) : i \in Seeds}
      [] itemType = TestItemSliceType ->
            SeqsUpTo({TestStruct(i) : i \in Seeds}, MaxSlice)
      [] itemType = TestItemArray1Type -> {<<TestStruct(i)>> : i \in Seeds}
      [] itemType = TestItemArray2Type ->
            {<<TestStruct(i), TestStruct(j)>> : i \in Seeds, j \in Seeds}
      [] itemType = sizeItemType ->
            {[Stuff |-> q, OtherStuff |-> i - 1] :
                q \in SeqsUpTo({i - 1 : i \in Seeds}, MaxSlice), i \in Seeds}
      [] itemType = TestItemWithConfigExtra ->
            {Substitute(TestStruct(i), {"BigField", "Account"},
                        (ExtraName(config) :> anyExtraValue + e)) :
                i \in Seeds, e \in {0, 1}}

GetMaxEncodingSizeCall ==
    /\ codecOp = NoCodecOp
    /\ \E itemType \in Items \cup {"unknown"} : \E n \in 0..MaxN :
          LET r == GetMaxEncodingSize(Config, n, itemType)
          IN  codecOp' = [NoCodecOp EXCEPT !.op = "GetMaxEncodingSize", !.item = itemType,
                                           !.n = n, !.size = r.size, !.err = r.err]
    /\ UNCHANGED bindingState

GetMaxDecodingSizeCall ==
    /\ codecOp = NoCodecOp
    /\ \E itemType \in Items \cup {"unknown"} : \E n \in 0..MaxN :
          LET r == GetMaxDecodingSize(Config, n, itemType)
          IN  codecOp' = [NoCodecOp EXCEPT !.op = "GetMaxDecodingSize", !.item = itemType,
                                           !.n = n, !.size = r.size, !.err = r.err]
    /\ UNCHANGED bindingState

EncodeCall ==
    /\ codecOp = NoCodecOp
    /\ \E itemType \in Items : \E x \in OffChainValues(Config, itemType) :
          LET r == Encode(Config, x, itemType)
          IN  codecOp' = [NoCodecOp EXCEPT
                              !.op = "Encode", !.item = itemType, !.value = x,
                              !.applied = ForwardOrder(Config[itemType].ModifierConfigs),
                              !.bytes = r.bytes, !.err = r.err]
    /\ UNCHANGED bindingState

\* The caller decodes the bytes the last Encode produced.
DecodeCall ==
    /\ codecOp.op = "Encode"
    /\ codecOp.err = Nil
    /\ LET r == Decode(Config, codecOp.bytes, codecOp.item)
       IN  codecOp' = [codecOp EXCEPT
                           !.op = "Decode",
                           !.applied = InverseOrder(Config[codecOp.item].ModifierConfigs),
                           !.out = r.val, !.err = r.err]
    /\ UNCHANGED bindingState

\* The caller is done with the results of its call.
CodecReturn ==
    /\ codecOp # NoCodecOp
    /\ codecOp' = NoCodecOp
    /\ UNCHANGED bindingState

NextCodec ==
    \/ GetMaxEncodingSizeCall
    \/ GetMaxDecodingSizeCall
    \/ EncodeCall
    \/ DecodeCall
    \/ CodecReturn

SpecCodec == InitCodec /\ [][NextCodec]_vars

\* ------------------------------------------------------------------ claims

\* Thread t's call of method op has reached its return.
Done(t, op) == pc[t] = "done" /\ call[t].op = op

\* Every log-source call of t's call succeeded.
LogSourceSucceeded(t) == \A i \in 1..Len(trace[t]) : trace[t][i].err = Nil

\* The log-source operations t's call has invoked.
Invoked(t) == {trace[t][i].op : i \in 1..Len(trace[t])}

\* The address t's Bind was given.
NewAddress(t) == HexToAddress(call[t].Address)

\* C1: sequential use, filter operations succeeding: once Register was called
\* and the binding is bound to A, a Bind to another address B ends with
\* exactly one filter under the binding's id, watching B, and none watching A.
C1_RebindMovesFilter ==
    \A t \in Threads :
        (/\ Done(t, "Bind")
         /\ everRegister[call[t].b]
         /\ entry[t].bound
         /\ entry[t].address # NewAddress(t)
         /\ LogSourceSucceeded(t))
        => /\ filters[id(call[t].b)] = <<Filter(call[t].b, NewAddress(t))>>
           /\ \A i \in 1..Len(filters[id(call[t].b)]) :
                 filters[id(call[t].b)][i].Addresses # <<entry[t].address>>

\* A Bind from 0xA (with its filter) to 0xB has returned, the filter moved.
C1_Witness ==
    \E t \in Threads :
        /\ Done(t, "Bind") /\ everRegister[call[t].b] /\ ret[t] = Nil
        /\ entry[t].bound /\ entry[t].address = 10 /\ NewAddress(t) = 11
        /\ entry[t].filters = <<Filter(call[t].b, 10)>>
        /\ filters[id(call[t].b)] = <<Filter(call[t].b, 11)>>

\* C2: while Register has never been called on a binding, no sequence of Bind
\* and Unregister calls invokes RegisterFilter or leaves a filter under the
\* binding's id.
C2_NoFilterWithoutRegister ==
    \A b \in Bindings :
        ~everRegister[b] =>
            /\ filters[id(b)] = <<>>
            /\ \A t \in Threads : call[t].b = b => "RegisterFilter" \notin Invoked(t)

\* A Bind of an already bound binding has returned, Register never called.
C2_Witness ==
    \E t \in Threads :
        /\ Done(t, "Bind") /\ ~everRegister[call[t].b] /\ ret[t] = Nil
        /\ entry[t].bound /\ entry[t].address # NewAddress(t)
        /\ address[call[t].b] = NewAddress(t)
        /\ filters[id(call[t].b)] = <<>>

\* C3 (state part): a Register call has set the flag once past line 52, also
\* when it returns early or RegisterFilter fails; and a Bind that succeeds
\* after Register was called ends with the filter at the newly bound address.
C3_LatchSetAndHonoured ==
    \A t \in Threads :
        /\ (call[t].op = "Register" /\ pc[t] \in {"Register.filter", "done"})
              => registerCalled[call[t].b]
        /\ (Done(t, "Bind") /\ everRegister[call[t].b] /\ ret[t] = Nil)
              => filters[id(call[t].b)] = <<Filter(call[t].b, NewAddress(t))>>

\* C3: the register-requested flag is a latch, set by the first Register call
\* and never reset by Register, Unregister or Bind, so that every later Bind
\* that succeeds ends registered at the new address.
C3_RegisterRequestedLatch ==
    /\ []C3_LatchSetAndHonoured
    /\ [][\A b \in Bindings : registerCalled[b] => registerCalled'[b]]_vars

\* A Bind has returned registered although the binding, with registration
\* requested, had been unregistered before it.
C3_Witness ==
    \E t \in Threads :
        /\ Done(t, "Bind") /\ everRegister[call[t].b] /\ ret[t] = Nil
        /\ entry[t].bound /\ entry[t].registerCalled /\ entry[t].filters = <<>>
        /\ filters[id(call[t].b)] = <<Filter(call[t].b, NewAddress(t))>>

\* C4: the filters under a binding's id change only in a Register,
\* Unregister or Bind call on that binding: calls on the other binding of the
\* same event and address leave their presence and address as they are.
C4_BindingsIndependent ==
    [][\A b \in Bindings :
          filters'[id(b)] # filters[id(b)]
          => \E t \in Threads : /\ call[t].b = b
                                /\ pc[t] \in {"Register.filter", "Unregister.filter"}]_vars

\* Both bindings were registered at the same address; b1 has unregistered and
\* b2's filter is still there.
C4_Witness ==
    \E t \in Threads :
        /\ Done(t, "Unregister") /\ call[t].b = "b1" /\ ret[t] = Nil
        /\ hash("b1") = hash("b2") /\ address["b1"] = address["b2"] /\ id("b1") # id("b2")
        /\ entry[t].filters = <<Filter("b1", address["b1"])>>
        /\ filters[id("b1")] = <<>>
        /\ filters[id("b2")] = <<Filter("b2", address["b2"])>>

\* The filtered path of t's GetLatestValue got its candidates and returned.
Filtered(t) ==
    /\ Done(t, "GetLatestValue")
    /\ trace[t] # <<>>
    /\ trace[t][Len(trace[t])].op = "IndexedLogs"
    /\ trace[t][Len(trace[t])].err = Nil

\* The hashes held back for narrowing, and the candidates returned.
Remaining(t) == Tail(hashes[t])
Candidates(t) == {logs[t][i] : i \in 1..Len(logs[t])}

\* Log l carries hash fs[j] in topic slot j + 1, for every j.
TopicsEqual(l, fs) ==
    /\ Len(l.Topics) >= Len(fs) + 2
    /\ \A j \in 1..Len(fs) : l.Topics[j + 2] = fs[j]

\* Log l carries another hash than fs[j] in some topic slot j + 1.
TopicsDiffer(l, fs) ==
    \E j \in 1..Len(fs) : j + 2 <= Len(l.Topics) /\ l.Topics[j + 2] # fs[j]

\* l1 is at or after l2 in (block number, log index) order.
NotOlder(l1, l2) ==
    \/ l1.BlockNumber > l2.BlockNumber
    \/ l1.BlockNumber = l2.BlockNumber /\ l1.LogIndex >= l2.LogIndex

\* t's GetLatestValue passed a log of the filtered path to decodeLog.
Decoded(t) == Filtered(t) /\ logToUse[t] # <<>> /\ ret[t] # Panic

C6_NewestMatchingLog ==
    \A t \in Threads :
        Decoded(t) =>
            /\ logToUse[t][1] \in Candidates(t)
            /\ TopicsEqual(logToUse[t][1], Remaining(t))
            /\ \A o \in Candidates(t) :
                  TopicsEqual(o, Remaining(t)) => NotOlder(logToUse[t][1], o)

\* (10,5) came first, then (10,2), both matching, then a newer (12,0) that
\* does not match: (10,5) was decoded.
C6_Witness ==
    \E t \in Threads :
        /\ Decoded(t) /\ ret[t] = Nil /\ Len(logs[t]) = 3
        /\ <<logs[t][1].BlockNumber, logs[t][1].LogIndex>> = <<10, 5>>
        /\ <<logs[t][2].BlockNumber, logs[t][2].LogIndex>> = <<10, 2>>
        /\ <<logs[t][3].BlockNumber, logs[t][3].LogIndex>> = <<12, 0>>
        /\ TopicsEqual(logs[t][1], Remaining(t))
        /\ TopicsEqual(logs[t][2], Remaining(t))
        /\ TopicsDiffer(logs[t][3], Remaining(t))
        /\ logToUse[t] = <<logs[t][1]>>

\* C7: with k >= 2 topic hashes, the decoded log carries hash i in its topic
\* slot i for every i in 2..k; and when every candidate either does so or
\* differs in one of these slots, the differing ones are excluded without an
\* error: a log is selected exactly when one matches.
C7_NarrowingByRemainingTopics ==
    \A t \in Threads :
        (Filtered(t) /\ Len(hashes[t]) >= 2) =>
            /\ Decoded(t) => TopicsEqual(logToUse[t][1], Remaining(t))
            /\ (\A l \in Candidates(t) :
                   TopicsEqual(l, Remaining(t)) \/ TopicsDiffer(l, Remaining(t)))
               => /\ ret[t] # Panic
                  /\ logToUse[t] # <<>> <=> \E l \in Candidates(t) : TopicsEqual(l, Remaining(t))
                  /\ (\E l \in Candidates(t) : TopicsEqual(l, Remaining(t)))
                        => ret[t] # ErrNotFound

\* Two hashes, three candidates, one of which matches both: it was decoded.
C7_Witness ==
    \E t \in Threads :
        /\ Filtered(t) /\ Len(hashes[t]) = 2 /\ Len(logs[t]) = 3
        /\ Cardinality({l \in Candidates(t) : TopicsEqual(l, Remaining(t))}) = 1
        /\ Cardinality({l \in Candidates(t) : TopicsDiffer(l, Remaining(t))}) = 2
        /\ TopicsEqual(logToUse[t][1], Remaining(t))
        /\ ret[t] = Nil /\ into[t] = [data |-> TRUE, topics |-> TRUE]

\* C10: address, pending flag, bound flag and register-requested flag of a
\* binding are written only while a caller holds the binding's lock.
C10_WritesUnderLock ==
    [][\A b \in Bindings :
          (\/ address'[b] # address[b]
           \/ pending'[b] # pending[b]
           \/ bound'[b] # bound[b]
           \/ registerCalled'[b] # registerCalled[b])
          => \E t \in Threads : lock[b] = t /\ call[t].b = b]_vars

\* The schema the tests hand to GetMaxSize for the item of the codec call.
Schema == parseDefs[codecOp.item]

HiddenFields == {"ExtraField", "Extra"}

\* Items whose values are structs (the others are sequences of structs).
StructItems == {TestItemType, sizeItemType, TestItemWithConfigExtra}

\* The modifier chain of the item of the codec call.
Chain == Config[codecOp.item].ModifierConfigs

Quiescent(b) ==
    /\ ~failed[b]
    /\ \A t \in Threads : call[t].b = b => pc[t] = "done" /\ ret[t] = Nil

\* C11: under every interleaving of calls on one binding, once all calls have
\* returned without error, a filter under the binding's id watches the
\* binding's current address.
C11_NoStaleFilter ==
    \A b \in Bindings :
        Quiescent(b) =>
            \A i \in 1..Len(filters[id(b)]) : filters[id(b)][i].Addresses = <<address[b]>>

\* C12: sequential use, filter operations failing or not: at most one filter
\* exists under a binding's id; one exists only if the binding is bound and
\* Register was requested; and it carries the binding's id, signature hash
\* and current address.
C12_FilterInvariant ==
    \A b \in Bindings :
        /\ Len(filters[id(b)]) <= 1
        /\ filters[id(b)] # <<>> => bound[b] /\ registerCalled[b] /\ everRegister[b]
        /\ \A i \in 1..Len(filters[id(b)]) :
              /\ filters[id(b)][i].Name = id(b)
              /\ filters[id(b)][i].EventSigs = <<hash(b)>>
              /\ filters[id(b)][i].Addresses = <<address[b]>>

\* After an earlier failed call, a Bind to another address has failed in
\* UnregisterFilter: the filter is still there, at the unchanged address.
C12_Witness ==
    \E t \in Threads :
        /\ Done(t, "Bind") /\ ret[t] = ErrInternal
        /\ failed[call[t].b]
        /\ NewAddress(t) # address[call[t].b]
        /\ filters[id(call[t].b)] = <<Filter(call[t].b, address[call[t].b])>>

\* The binding of t's call.
B(t) == call[t].b

\* t's step registers a filter: its record gains a RegisterFilter call.
CallsRegisterFilter(t) ==
    /\ Len(trace'[t]) = Len(trace[t]) + 1
    /\ trace'[t][Len(trace'[t])].op = "RegisterFilter"

\* C13 (step part): Register's check (lines 52-55) goes on to RegisterFilter
\* exactly when the binding is bound and has no filter, and otherwise returns
\* nil leaving the filters as they are; RegisterFilter is invoked only by the
\* step after that check, on a bound binding without a filter.
C13_RegisterStep ==
    \A t \in Threads :
        /\ (pc[t] = "Register.enter" /\ pc'[t] # pc[t])
              => IF bound[B(t)] /\ filters[id(B(t))] = <<>>
                 THEN pc'[t] = "Register.filter" /\ filters' = filters
                 ELSE pc'[t] = "done" /\ ret'[t] = Nil /\ filters' = filters
        /\ CallsRegisterFilter(t)
              => pc[t] = "Register.filter" /\ bound[B(t)] /\ filters[id(B(t))] = <<>>
        /\ (pc[t] = "Register.filter" /\ pc'[t] # pc[t]) => CallsRegisterFilter(t)

\* C13: Register invokes RegisterFilter only on a bound binding without a
\* filter and otherwise returns nil without a filter mutation; under
\* concurrent calls no id ever holds two filters.
C13_RegisterOnlyWithoutFilter ==
    /\ [][C13_RegisterStep]_vars
    /\ [](\A b \in Bindings : Len(filters[id(b)]) <= 1)

\* Two Register calls that both found the binding bound and without a filter
\* when they were made: one registered, the other returned early.
C13_Witness ==
    \E t \in Threads : \E u \in Threads \ {t} :
        /\ Done(t, "Register") /\ Done(u, "Register") /\ B(t) = B(u)
        /\ ret[t] = Nil /\ ret[u] = Nil
        /\ entry[t].bound /\ entry[t].filters = <<>>
        /\ entry[u].bound /\ entry[u].filters = <<>>
        /\ "RegisterFilter" \in Invoked(t)
        /\ "RegisterFilter" \notin Invoked(u)
        /\ Len(filters[id(B(t))]) = 1

\* The fields of t's binding are as they were when t's call was made.
FieldsKept(t) ==
    /\ address[B(t)] = entry[t].address
    /\ pending[B(t)] = entry[t].pending
    /\ bound[B(t)] = entry[t].bound
    /\ registerCalled[B(t)] = entry[t].registerCalled

\* C14: sequential use: an Unregister call that finds a filter removes it
\* (when UnregisterFilter succeeds); one that finds none returns nil without
\* calling UnregisterFilter, so a second call changes nothing; address,
\* pending flag, latch and bound flag are never changed.
C14_UnregisterIdempotent ==
    \A t \in Threads :
        Done(t, "Unregister") =>
            /\ FieldsKept(t)
            /\ entry[t].filters = <<>>
                  => /\ ret[t] = Nil
                     /\ "UnregisterFilter" \notin Invoked(t)
                     /\ filters[id(B(t))] = <<>>
            /\ (entry[t].filters # <<>> /\ LogSourceSucceeded(t))
                  => /\ ret[t] = Nil
                     /\ "UnregisterFilter" \in Invoked(t)
                     /\ filters[id(B(t))] = <<>>

\* A second Unregister: the binding is bound with registration requested, no
\* call has failed, and the filter was already gone when the call was made.
C14_Witness ==
    \E t \in Threads :
        /\ Done(t, "Unregister") /\ ret[t] = Nil
        /\ ~failed[B(t)]
        /\ entry[t].bound /\ entry[t].registerCalled /\ entry[t].filters = <<>>
        /\ bound[B(t)] /\ registerCalled[B(t)] /\ filters[id(B(t))] = <<>>

\* The calls of log-source operation op in t's record.
CallsOf(t, op) == {i \in 1..Len(trace[t]) : trace[t][i].op = op}

\* The calls of op in t's record that failed.
FailedCallsOf(t, op) == {i \in CallsOf(t, op) : trace[t][i].err # Nil}

\* C15: a Bind on a binding with the latch set whose RegisterFilter call
\* fails returns Internal, leaves the binding bound to the new address and
\* pending flag without a filter, and has called RegisterFilter once.
C15_BindRegisterFails ==
    \A t \in Threads :
        (/\ Done(t, "Bind")
         /\ entry[t].registerCalled
         /\ FailedCallsOf(t, "RegisterFilter") # {})
        => /\ ret[t] = ErrInternal
           /\ bound[B(t)]
           /\ address[B(t)] = NewAddress(t)
           /\ pending[B(t)] = call[t].Pending
           /\ filters[id(B(t))] = <<>>
           /\ Cardinality(CallsOf(t, "RegisterFilter")) = 1

\* A registered binding was rebound to another address and pending flag; the
\* old filter was removed and registering the new one failed.
C15_Witness ==
    \E t \in Threads :
        /\ Done(t, "Bind") /\ ret[t] = ErrInternal
        /\ entry[t].registerCalled
        /\ entry[t].filters = <<Filter(B(t), entry[t].address)>>
        /\ entry[t].address # NewAddress(t)
        /\ entry[t].pending # call[t].Pending
        /\ FailedCallsOf(t, "RegisterFilter") # {}
        /\ FailedCallsOf(t, "UnregisterFilter") = {}
        /\ address[B(t)] = NewAddress(t)
        /\ filters[id(B(t))] = <<>>

\* C16: a Bind whose UnregisterFilter call fails returns Internal and changes
\* nothing: the fields are as before, RegisterFilter is not invoked and the
\* filter found at the call is still there.
C16_BindUnregisterFails ==
    \A t \in Threads :
        (Done(t, "Bind") /\ FailedCallsOf(t, "UnregisterFilter") # {})
        => /\ ret[t] = ErrInternal
           /\ FieldsKept(t)
           /\ "RegisterFilter" \notin Invoked(t)
           /\ filters[id(B(t))] # <<>>
           /\ filters[id(B(t))] = entry[t].filters

\* A Bind of a registered binding to another address and pending flag failed
\* in UnregisterFilter: the filter still watches the old address.
C16_Witness ==
    \E t \in Threads :
        /\ Done(t, "Bind") /\ ret[t] = ErrInternal
        /\ FailedCallsOf(t, "UnregisterFilter") # {}
        /\ entry[t].bound
        /\ entry[t].address # NewAddress(t)
        /\ entry[t].pending # call[t].Pending
        /\ address[B(t)] = entry[t].address
        /\ filters[id(B(t))] = <<Filter(B(t), entry[t].address)>>

\* The log-source queries in t's record.
Queries(t) ==
    {i \in 1..Len(trace[t]) : trace[t][i].op \in {"LatestLogByEventSigWithConfs", "IndexedLogs"}}

\* Query q carries the signature hash of binding b, and the address and the
\* confirmation policy of the Bind with arguments args (<<>>: no such Bind).
Carries(q, b, args) ==
    /\ args # <<>>
    /\ q.name = hash(b)
    /\ q.addr = args[1].Address
    /\ q.confs = Unconfirmed <=> args[1].Pending
    /\ q.confs = Finalized <=> ~args[1].Pending

\* C17 as stated: every query of GetLatestValue carries the signature hash,
\* and the address and pending flag of the most recent Bind that returned nil.
C17_QueryOfSuccessfulBind ==
    \A t \in Threads :
        call[t].op = "GetLatestValue" =>
            \A i \in Queries(t) : Carries(trace[t][i], B(t), lastBind[B(t)].returned)

\* C17, amended: every query of GetLatestValue, in either path, carries the
\* signature hash, and the address and pending flag of the most recent Bind
\* that replaced them, whether or not its Register call then failed.
C17_QueryOfLastWrittenBind ==
    \A t \in Threads :
        call[t].op = "GetLatestValue" =>
            \A i \in Queries(t) : Carries(trace[t][i], B(t), lastBind[B(t)].written)

\* A query with Unconfirmed after a Bind with the pending flag set that
\* failed in RegisterFilter, the Bind before it having had the flag unset.
C17_Witness ==
    \E t \in Threads :
        /\ Done(t, "GetLatestValue")
        /\ Queries(t) # {}
        /\ \A i \in Queries(t) : trace[t][i].confs = Unconfirmed
        /\ lastBind[B(t)].returned # <<>>
        /\ lastBind[B(t)].written # lastBind[B(t)].returned
        /\ lastBind[B(t)].written[1].Pending
        /\ ~lastBind[B(t)].returned[1].Pending

\* t's GetLatestValue has changed neither the binding nor its filters, and
\* has called no filter operation.
ReadOnly(t) ==
    /\ FieldsKept(t)
    /\ filters[id(B(t))] = entry[t].filters
    /\ Invoked(t) \subseteq {"LatestLogByEventSigWithConfs", "IndexedLogs"}
    /\ Len(trace[t]) <= 1

\* The one query of the path t's GetLatestValue took: on the event signature
\* alone, or on topic slot 1 with the first computed hash and no other.
QueryOfPath(t) ==
    /\ Len(trace[t]) = 1
    /\ IF inputInfo[B(t)] = 0
       THEN trace[t][1].op = "LatestLogByEventSigWithConfs"
       ELSE /\ trace[t][1].op = "IndexedLogs"
            /\ trace[t][1].slot = 1
            /\ trace[t][1].topics = <<hashes[t][1]>>

\* C18 as stated: a GetLatestValue call on a bound binding has made exactly
\* one query, that of its path, and is read-only.
C18_ExactlyOneQuery ==
    \A t \in Threads :
        call[t].op = "GetLatestValue" =>
            /\ ReadOnly(t)
            /\ (pc[t] = "done" /\ entry[t].bound) => QueryOfPath(t)

\* C18, amended: a GetLatestValue call is read-only and makes at most one
\* log-source call; on a bound binding it has made exactly the one query of
\* its path, unless the params could not be encoded, when it has made none.
C18_OneQueryOnceEncoded ==
    \A t \in Threads :
        call[t].op = "GetLatestValue" =>
            /\ ReadOnly(t)
            /\ (pc[t] = "done" /\ entry[t].bound) =>
                  IF inputInfo[B(t)] > 0 /\ hashes[t] = <<>>
                  THEN trace[t] = <<>> /\ ret[t] \in {ErrInvalidType, ErrInternal}
                  ELSE QueryOfPath(t)

\* Two hashes were computed and differ; the one query carried the first.
C18_Witness ==
    \E t \in Threads :
        /\ Done(t, "GetLatestValue") /\ ret[t] = Nil
        /\ Len(hashes[t]) = 2 /\ hashes[t][1] # hashes[t][2]
        /\ QueryOfPath(t)
        /\ entry[t].filters # <<>>

\* The messages that indicate absence: they contain "not found" or "no rows".
IndicatesAbsence(msg) == msg \in {"block not found", "sql: no rows in result set"}

\* The log-source calls of kind ops that failed during t's current call.
FailuresOf(t, ops) ==
    {i \in 1..Len(trace[t]) : trace[t][i].op \in ops /\ trace[t][i].err # Nil}

\* C19: a GetLatestValue call whose query failed has failed with NotFound when
\* the message indicates absence and with Internal otherwise, in the
\* unfiltered and in the filtered path; a call whose RegisterFilter or
\* UnregisterFilter failed has failed with Internal whatever the message.
C19_ErrorClasses ==
    \A t \in Threads :
        pc[t] = "done" =>
            /\ \A i \in FailuresOf(t, {"LatestLogByEventSigWithConfs", "IndexedLogs"}) :
                  /\ call[t].op = "GetLatestValue"
                  /\ ret[t] = IF IndicatesAbsence(trace[t][i].err)
                              THEN ErrNotFound ELSE ErrInternal
            /\ \A i \in FailuresOf(t, {"RegisterFilter", "UnregisterFilter"}) :
                  /\ call[t].op \in {"Register", "Unregister", "Bind"}
                  /\ ret[t] = ErrInternal

\* A query in the filtered path failed with a message that indicates absence
\* and was reported as NotFound, on a binding one of whose filter operations
\* had failed before.
C19_Witness ==
    \E t \in Threads :
        /\ Done(t, "GetLatestValue") /\ ret[t] = ErrNotFound
        /\ inputInfo[B(t)] > 0 /\ failed[B(t)]
        /\ \E i \in FailuresOf(t, {"IndexedLogs"}) : IndicatesAbsence(trace[t][i].err)

\* Log l has fewer topics than narrowing by t's computed hashes needs.
Short(l, t) == Len(l.Topics) < Len(hashes[t]) + 1

\* The candidates of t's call that pass narrowing.
Matching(t) == {l \in Candidates(t) : TopicsEqual(l, Remaining(t))}

\* C20: when a candidate of the filtered path has fewer than k + 1 topics for
\* k computed hashes, it is excluded silently: the call does not abort, and
\* it selects the newest of the candidates that match, or fails with NotFound
\* when none does.
C20_ShortCandidateExcluded ==
    \A t \in Threads :
        (Filtered(t) /\ \E l \in Candidates(t) : Short(l, t)) =>
            /\ ret[t] # Panic
            /\ IF Matching(t) = {}
               THEN ret[t] = ErrNotFound
               ELSE /\ logToUse[t] # <<>>
                    /\ logToUse[t][1] \in Matching(t)
                    /\ \A o \in Matching(t) : NotOlder(logToUse[t][1], o)

\* t's GetLatestValue handed a log to decodeLog, and that log has fewer
\* topics than the topic schema has fields, plus one.
DecodedShortLog(t) ==
    /\ Done(t, "GetLatestValue")
    /\ logToUse[t] # <<>> /\ ret[t] # Panic
    /\ Len(logToUse[t][1].Topics) < topicInfo[B(t)] + 1

\* C21: decoding a log with fewer topics than the topic schema has fields,
\* plus one, fails: with the codec's error when Decode of the data payload
\* fails, and otherwise with InvalidType from the topic count, after the
\* data fields have been written to the target; no topic field is written.
C21_TopicCountAfterData ==
    \A t \in Threads :
        DecodedShortLog(t) =>
            /\ ret[t] # Nil
            /\ decodeStep[t] \in {"Decode", "topics"}
            /\ decodeStep[t] = "topics" =>
                  /\ ret[t] = ErrInvalidType
                  /\ into[t].data /\ ~into[t].topics
            /\ ret[t] # ErrInvalidType => decodeStep[t] = "Decode"

\* The filtered path selected a log that passes narrowing by two hashes and
\* lacks the third topic field of the schema: the count failed with
\* InvalidType after the data fields were written.
C21_Witness ==
    \E t \in Threads :
        /\ DecodedShortLog(t) /\ Filtered(t)
        /\ Len(hashes[t]) = 2 /\ Len(logToUse[t][1].Topics) = 3
        /\ decodeStep[t] = "topics" /\ ret[t] = ErrInvalidType
        /\ into[t] = [data |-> TRUE, topics |-> FALSE]

\* The two complete states of a binding that is bound to 0xA with pending
\* false and then rebound to 0xB with pending true.
PreRebind == [Address |-> HexToAddress("0xA"), Pending |-> FALSE]
PostRebind == [Address |-> HexToAddress("0xB"), Pending |-> TRUE]

\* C22: every query of a GetLatestValue call that races the rebind carries
\* the address and the policy of the state before the rebind or those of the
\* state after it, never the address of one with the policy of the other;
\* a call that began in the state after the rebind carries that state.
C22_NoTornRead ==
    \A t \in Threads :
        call[t].op = "GetLatestValue" =>
            \A i \in Queries(t) :
                /\ \/ Carries(trace[t][i], B(t), <<PreRebind>>)
                   \/ Carries(trace[t][i], B(t), <<PostRebind>>)
                /\ (entry[t].address = PostRebind.Address /\ entry[t].pending)
                      => Carries(trace[t][i], B(t), <<PostRebind>>)

\* Caller t is inside a call that has not returned yet.
Running(t) == pc[t] \notin {"idle", "done"}

\* C23: every call that was begun returns, whatever the other caller does.
C23_EveryCallReturns == \A t \in Threads : Running(t) ~> pc[t] = "done"

\* A Bind has failed inside its Register call and has left the lock free,
\* while the other caller is about to take the lock for its own call.
C23_Witness ==
    \E t, u \in Threads :
        /\ Done(u, "Bind") /\ ret[u] = ErrInternal
        /\ "RegisterFilter" \in Invoked(u)
        /\ pc[t] \in {"Register.lock", "Unregister.lock"}
        /\ B(t) = B(u) /\ lock[B(t)] = None

====
